---- MODULE Spec2Model ----
(***************************************************************************)
(* pytest-forger: the `ptf forge` command (src/pytest_forger/cli.py) and   *)
(* the two core operations it calls, CodeAnalyzer.extract_functions and    *)
(* generate_test_content (pytest_forger.core, described in the design      *)
(* document sections 4.1 and 4.2).                                         *)
(*                                                                         *)
(* An optional value (typer's Optional[str]) is a sequence: <<>> is None   *)
(* and <<s>> is the string s.  A text is a sequence of lines.  A file      *)
(* that may be absent is a sequence too: <<>> is "no such file" and        *)
(* <<text>> is a file holding text.                                        *)
(***************************************************************************)
EXTENDS Integers, Sequences, FiniteSets, TLC

\* ---------------------------------------------------------------- bounds
\* Longest descriptor list the analyzer hands to forge.
MaxFuncs == 3
\* Most definitions (functions and classes) in an analysed source tree.
MaxDefs == 4

\* Callable names: run_2 is the name a second `run` collides with.
Names == {"run", "run_2", "load"}
\* Values of --function: a callable name, a name that matches nothing, and
\* the empty string (`ptf forge x.py --function ""`).
RequestedNames == {"run", "gamma", ""}
\* Values of --output: a directory name and the empty string.
RequestedDirs == {"out", ""}
\* Path(source_file).stem of the analysed file.
SrcStem == "mod"

VARIABLES
    \* forge: arguments
    src_is_file,    \* src_path.exists() and src_path.is_file()
    function_name,  \* --function, optional
    output_dir,     \* --output, optional
    overwrite,      \* --overwrite
    verbose,        \* --verbose
    \* forge: the file system, per directory: what the path is, and the
    \* content of test_<stem>.py inside it
    fs,
    fs0,            \* history: fs when the run started
    \* forge: locals and control
    pc,             \* position in forge
    functions,      \* the local `functions`
    extracted,      \* history: what extract_functions returned
    test_content,   \* the local `test_content`
    output,         \* what typer.echo / typer.secho / the interpreter printed
    exit_code,      \* <<>> while running, <<c>> once the process ended with c
    steps,          \* history: the steps of forge executed so far
    raised,         \* history: the collaborators whose call raised
    \* extract_functions on its own
    tree,           \* the parsed source: definitions in source order
    descriptors     \* <<>> before the call, <<result>> after it

forge_vars == <<src_is_file, function_name, output_dir, overwrite, verbose,
                fs, fs0, pc, functions, extracted, test_content, output,
                exit_code, steps, raised>>
extract_vars == <<tree, descriptors>>
vars == <<forge_vars, extract_vars>>

\* ------------------------------------------------------------- helpers
None == <<>>
Some(s) == <<s>>
\* Python truthiness of an Optional[str]: None and "" are both false.
Truthy(opt) == opt # None /\ opt[1] # ""

\* A callable descriptor, reduced to the fields forge and the claims read.
Descriptor(n, line) == [name |-> n, lineno |-> line]

\* Every descriptor list of at most MaxFuncs callables, in source order.
DescriptorSeqs ==
    UNION { { [i \in 1..n |-> Descriptor(f[i], i)] : f \in [1..n -> Names] }
            : n \in 0..MaxFuncs }

Line(k, t) == [kind |-> k, text |-> t]

\* ------------------------------------- generate_test_content (core, 4.2)
\* Step 2: the header, the import of the analysed module (by its stem) and
\* the import of the test framework, in that order.
Header(stem) == << Line("import", stem), Line("import", "pytest") >>

\* Step 3, the name of a test: test_<callable name> for the first descriptor
\* of that name, the suffix _k for the k-th.
TestNameAlwaysSuffixed(n, k) == "test_" \o n \o "_" \o ToString(k)
TestName(n, k) ==
    IF k = 1 THEN "test_" \o n ELSE "test_" \o n \o "_" \o ToString(k)

\* The loop over the descriptors, `seen` counting the names met so far.
RECURSIVE NameTests(_, _, _)
NameTests(ds, i, seen) ==
    IF i > Len(ds) THEN <<>>
    ELSE LET n == ds[i].name
             k == seen[n] + 1
         IN  <<TestName(n, k)>> \o NameTests(ds, i + 1, [seen EXCEPT ![n] = k])

test_names(ds) ==
    NameTests(ds, 1, [n \in {ds[j].name : j \in 1..Len(ds)} |-> 0])

\* Step 3, one test definition: a blank separator line, the definition line,
\* the placeholder call of the callable and the placeholder assertion.
TestDefinition(tname, d) ==
    << Line("blank", ""), Line("def", tname), Line("call", d.name),
       Line("assert", "not implemented") >>

RECURSIVE Definitions(_, _, _)
Definitions(ds, tnames, i) ==
    IF i > Len(ds) THEN <<>>
    ELSE TestDefinition(tnames[i], ds[i]) \o Definitions(ds, tnames, i + 1)

\* Step 4: header, then the test definitions in descriptor order.
generate_test_content(stem, ds) ==
    Header(stem) \o Definitions(ds, test_names(ds), 1)

\* ------------------------------------------------------ forge, cli.py
Dirs == {"tests", "out"}
\* What the file system holds at a directory path: nothing, a regular file,
\* or a directory, whose test_<stem>.py is absent (<<>>) or holds a text.
OldContent == << Line("old", "hand-written tests") >>
DirStates ==
    { [kind |-> "absent", dest |-> <<>>],
      [kind |-> "file", dest |-> <<>>],
      [kind |-> "dir", dest |-> <<>>],
      [kind |-> "dir", dest |-> <<OldContent>>] }

\* cli.py 115-116: Path(output_dir) if output_dir else Path("tests")
out_path == IF Truthy(output_dir) THEN output_dir[1] ELSE "tests"
\* cli.py 124-125: test_<stem>.py inside out_path
test_filename == "test_" \o SrcStem \o ".py"
test_file_path == out_path \o "/" \o test_filename

\* Path.exists()
DirExists(f, d) == f[d].kind # "absent"
FileExists(f, d) == f[d].kind = "dir" /\ f[d].dest # <<>>

Echo(msgs) == output' = output \o msgs
Exit(code) == exit_code' = <<code>> /\ pc' = "done"
Step(name) == steps' = Append(steps, name)
Raise(callee) == raised' = Append(raised, callee)

args == <<src_is_file, function_name, output_dir, overwrite, verbose, fs0>>

\* cli.py 88-95
Validate ==
    /\ pc = "validate"
    /\ Step("validate")
    /\ IF ~src_is_file
       THEN /\ Echo(<<"Error: Source file not found.">>)
            /\ Exit(1)
       ELSE /\ Echo(IF verbose THEN <<"Analyzing source file">> ELSE <<>>)
            /\ pc' = "parse"
            /\ UNCHANGED exit_code
    /\ UNCHANGED <<args, fs, functions, extracted, test_content, raised,
                   extract_vars>>

\* Parse with the handler swallowing the analyzer's exception: the run goes
\* on with no descriptors.
ParseSwallowsError ==
    /\ pc = "parse"
    /\ Step("parse")
    /\ \/ /\ Raise("analyzer")
          /\ Echo(<<"Error parsing file">>)
          /\ pc' = "filter"
          /\ UNCHANGED <<functions, extracted, exit_code>>
       \/ \E ds \in DescriptorSeqs :
            /\ functions' = ds
            /\ extracted' = ds
            /\ pc' = "filter"
            /\ UNCHANGED <<output, exit_code, raised>>
    /\ UNCHANGED <<args, fs, test_content, extract_vars>>

\* cli.py 97-103: the analyzer raises (unreadable or malformed source), or
\* returns the descriptors of the file's callables.
Parse ==
    /\ pc = "parse"
    /\ Step("parse")
    /\ \/ /\ Raise("analyzer")
          /\ Echo(<<"Error parsing file">>)
          /\ Exit(1)
          /\ UNCHANGED <<functions, extracted>>
       \/ \E ds \in DescriptorSeqs :
            /\ functions' = ds
            /\ extracted' = ds
            /\ pc' = "filter"
            /\ UNCHANGED <<output, exit_code, raised>>
    /\ UNCHANGED <<args, fs, test_content, extract_vars>>

\* Filter keeping only the first descriptor of the requested name.
FilterKeepsFirstMatch ==
    /\ pc = "filter"
    /\ Step("filter")
    /\ LET named == IF Truthy(function_name)
                    THEN SelectSeq(functions,
                                   LAMBDA f : f.name = function_name[1])
                    ELSE functions
           kept == IF Truthy(function_name) /\ named # <<>>
                   THEN <<named[1]>> ELSE named
           warning == IF Truthy(function_name) /\ kept = <<>>
                      THEN <<"Warning: Function not found in source.">>
                      ELSE <<>>
           found == IF verbose
                    THEN <<"Found " \o ToString(Len(kept))
                             \o " functions/methods to test.">>
                    ELSE <<>>
       IN  /\ functions' = kept
           /\ Echo(warning \o found)
    /\ pc' = "mkdir"
    /\ UNCHANGED <<args, fs, extracted, test_content, exit_code, raised,
                   extract_vars>>

\* Filter treating a name that matches nothing as an error that ends the run.
FilterAbortsWhenNotFound ==
    /\ pc = "filter"
    /\ Step("filter")
    /\ LET kept == IF Truthy(function_name)
                   THEN SelectSeq(functions,
                                  LAMBDA f : f.name = function_name[1])
                   ELSE functions
           found == IF verbose
                    THEN <<"Found " \o ToString(Len(kept))
                             \o " functions/methods to test.">>
                    ELSE <<>>
       IN  /\ functions' = kept
           /\ IF Truthy(function_name) /\ kept = <<>>
              THEN /\ Echo(<<"Warning: Function not found in source.">>)
                   /\ Exit(1)
              ELSE /\ Echo(found)
                   /\ pc' = "mkdir"
                   /\ UNCHANGED exit_code
    /\ UNCHANGED <<args, fs, extracted, test_content, raised, extract_vars>>

\* cli.py 105-112
Filter ==
    /\ pc = "filter"
    /\ Step("filter")
    /\ LET kept == IF Truthy(function_name)
                   THEN SelectSeq(functions,
                                  LAMBDA f : f.name = function_name[1])
                   ELSE functions
           warning == IF Truthy(function_name) /\ kept = <<>>
                      THEN <<"Warning: Function not found in source.">>
                      ELSE <<>>
           found == IF verbose
                    THEN <<"Found " \o ToString(Len(kept))
                             \o " functions/methods to test.">>
                    ELSE <<>>
       IN  /\ functions' = kept
           /\ Echo(warning \o found)
    /\ pc' = "mkdir"
    /\ UNCHANGED <<args, fs, extracted, test_content, exit_code, raised,
                   extract_vars>>

\* cli.py 114-121.  mkdir is outside every try: an OSError it raises leaves
\* forge uncaught, and the interpreter prints the traceback and ends with 1.
PrepareDir ==
    /\ pc = "mkdir"
    /\ Step("mkdir")
    /\ IF ~DirExists(fs, out_path)
       THEN \/ /\ fs' = [fs EXCEPT ![out_path].kind = "dir"]
               /\ Echo(IF verbose THEN <<"Created directory">> ELSE <<>>)
               /\ pc' = "check"
               /\ UNCHANGED <<exit_code, raised>>
            \/ /\ Raise("mkdir")
               /\ Echo(<<"Traceback: OSError">>)
               /\ Exit(1)
               /\ UNCHANGED fs
       ELSE /\ pc' = "check"
            /\ UNCHANGED <<fs, output, exit_code, raised>>
    /\ UNCHANGED <<args, functions, extracted, test_content, extract_vars>>

\* ExistsCheck without the safety default: an existing file never stops it.
ExistsCheckAlwaysGenerates ==
    /\ pc = "check"
    /\ Step("check")
    /\ pc' = "generate"
    /\ UNCHANGED <<args, fs, functions, extracted, test_content, output,
                   exit_code, raised, extract_vars>>

\* cli.py 127-130
ExistsCheck ==
    /\ pc = "check"
    /\ Step("check")
    /\ IF FileExists(fs, out_path) /\ ~overwrite
       THEN /\ Echo(<<"Warning: File already exists: " \o test_file_path>>)
            /\ Exit(0)
       ELSE /\ pc' = "generate"
            /\ UNCHANGED <<output, exit_code>>
    /\ UNCHANGED <<args, fs, functions, extracted, test_content, raised,
                   extract_vars>>

\* Generate from the analyzer's full result, the filter's result ignored.
GenerateFromExtracted ==
    /\ pc = "generate"
    /\ Step("generate")
    /\ test_content' = generate_test_content(SrcStem, extracted)
    /\ pc' = "open"
    /\ UNCHANGED <<args, fs, functions, extracted, output, exit_code,
                   raised, extract_vars>>

\* cli.py 132
Generate ==
    /\ pc = "generate"
    /\ Step("generate")
    /\ test_content' = generate_test_content(SrcStem, functions)
    /\ pc' = "open"
    /\ UNCHANGED <<args, fs, functions, extracted, output, exit_code,
                   raised, extract_vars>>

\* cli.py 134-135 and 144-146: open(test_file_path, "w") creates or
\* truncates the file, or raises OSError (always when out_path is not a
\* directory), which the handler reports.
Open ==
    /\ pc = "open"
    /\ Step("open")
    /\ \/ /\ fs[out_path].kind = "dir"
          /\ fs' = [fs EXCEPT ![out_path].dest = << <<>> >>]
          /\ pc' = "write"
          /\ UNCHANGED <<output, exit_code, raised>>
       \/ /\ Raise("open")
          /\ Echo(<<"Error writing file">>)
          /\ Exit(1)
          /\ UNCHANGED fs
    /\ UNCHANGED <<args, functions, extracted, test_content, extract_vars>>

\* Write with a handler that reports the OSError and then returns instead of
\* raising typer.Exit(code=1): the process ends with 0.
WriteFailureExitsZero ==
    /\ pc = "write"
    /\ Step("write")
    /\ \/ /\ fs' = [fs EXCEPT ![out_path].dest = <<test_content>>]
          /\ Echo(<<"Successfully forged: " \o test_file_path>>)
          /\ Exit(0)
          /\ UNCHANGED raised
       \/ \E k \in 0..(Len(test_content) - 1) :
            /\ Raise("write")
            /\ fs' = [fs EXCEPT ![out_path].dest =
                         <<SubSeq(test_content, 1, k)>>]
            /\ Echo(<<"Error writing file">>)
            /\ Exit(0)
    /\ UNCHANGED <<args, functions, extracted, test_content, extract_vars>>

\* cli.py 136-146: f.write and the close at the end of the with block.
\* Either the whole text reaches the file and success is reported, or an
\* OSError (disk full, ...) leaves a proper prefix of it and is reported.
Write ==
    /\ pc = "write"
    /\ Step("write")
    /\ \/ /\ fs' = [fs EXCEPT ![out_path].dest = <<test_content>>]
          /\ Echo(<<"Successfully forged: " \o test_file_path>>
                  \o (IF verbose
                      THEN <<"Generated tests for:">>
                           \o [i \in 1..Len(functions) |->
                                 "   - " \o functions[i].name]
                      ELSE <<>>))
          /\ Exit(0)
          /\ UNCHANGED raised
       \/ \E k \in 0..(Len(test_content) - 1) :
            /\ Raise("write")
            /\ fs' = [fs EXCEPT ![out_path].dest =
                         <<SubSeq(test_content, 1, k)>>]
            /\ Echo(<<"Error writing file">>)
            /\ Exit(1)
    /\ UNCHANGED <<args, functions, extracted, test_content, extract_vars>>

ForgeIdle ==
    /\ src_is_file = FALSE /\ function_name = None /\ output_dir = None
    /\ overwrite = FALSE /\ verbose = FALSE
    /\ fs = [d \in Dirs |-> [kind |-> "absent", dest |-> <<>>]] /\ fs0 = fs
    /\ pc = "idle" /\ functions = <<>> /\ extracted = <<>>
    /\ test_content = <<>> /\ output = <<>> /\ exit_code = <<>>
    /\ steps = <<>> /\ raised = <<>>

ExtractIdle == tree = <<>> /\ descriptors = <<>>

\* The process as `ptf forge` starts: any arguments, any file system.
Init ==
    /\ src_is_file \in BOOLEAN
    /\ function_name \in {None} \cup {Some(n) : n \in RequestedNames}
    /\ output_dir \in {None} \cup {Some(d) : d \in RequestedDirs}
    /\ overwrite \in BOOLEAN
    /\ verbose \in BOOLEAN
    /\ fs \in [Dirs -> DirStates]
    /\ fs0 = fs
    /\ pc = "validate"
    /\ functions = <<>>
    /\ extracted = <<>>
    /\ test_content = <<>>
    /\ output = <<>>
    /\ exit_code = <<>>
    /\ steps = <<>>
    /\ raised = <<>>
    /\ ExtractIdle

Next ==
    \/ Validate
    \/ Parse
    \/ Filter
    \/ PrepareDir
    \/ ExistsCheck
    \/ Generate
    \/ Open
    \/ Write

Spec == Init /\ [][Next]_vars

\* ------------------------------------------ extract_functions (core, 4.1)
\* The parsed source: its function and class definitions in source order.
\* Node i begins at line i and sits directly in the body of node parent
\* (0 is the module).
Node(k, n, p) == [kind |-> k, name |-> n, parent |-> p]
NodeKinds == {"FunctionDef", "ClassDef"}
TreeNames == {"run", "load"}

RECURSIVE Enclosing(_, _)
\* Node i and every definition that encloses it, and the module.
Enclosing(t, i) == IF i = 0 THEN {0} ELSE {i} \cup Enclosing(t, t[i].parent)

\* A sequence of nodes is the source order of a tree: a definition opens in
\* the body of the previous definition or of one that encloses it.
IsSourceOrder(t) ==
    \A i \in 1..Len(t) :
        /\ t[i].parent < i
        /\ i > 1 => t[i].parent \in Enclosing(t, i - 1)

SourceTrees ==
    UNION { { t \in [1..n -> { Node(k, m, p) : k \in NodeKinds,
                                                m \in TreeNames,
                                                p \in 0..(n - 1) }] :
                IsSourceOrder(t) }
            : n \in 0..MaxDefs }

\* Step 3, the visitor with its current scope kind (module, class or
\* function): a function definition met in module or class scope is
\* emitted; the walk goes on into every body with that body's scope kind.
EmitsInEveryScope(scope) == TRUE
EmitsIn(scope) == scope \in {"module", "class"}

RECURSIVE visit_body(_, _, _, _)
RECURSIVE visit_node(_, _, _)
visit_node(t, i, scope) ==
    IF t[i].kind = "FunctionDef"
    THEN (IF EmitsIn(scope) THEN <<Descriptor(t[i].name, i)>> ELSE <<>>)
         \o visit_body(t, i, i + 1, "function")
    ELSE visit_body(t, i, i + 1, "class")
\* The definitions directly in the body of node p, from line j on.
visit_body(t, p, j, scope) ==
    IF j > Len(t) THEN <<>>
    ELSE (IF t[j].parent = p THEN visit_node(t, j, scope) ELSE <<>>)
         \o visit_body(t, p, j + 1, scope)

extract_functions(t) == visit_body(t, 0, 1, "module")

ExtractInit ==
    /\ tree \in SourceTrees
    /\ descriptors = <<>>
    /\ ForgeIdle

Extract ==
    /\ descriptors = <<>>
    /\ descriptors' = <<extract_functions(tree)>>
    /\ UNCHANGED <<tree, forge_vars>>

ExtractNext == Extract

SpecExtract == ExtractInit /\ [][ExtractNext]_vars

\* ---------------------------------------------------------------- claims
Ran(step) == \E i \in 1..Len(steps) : steps[i] = step
Times(step) == Cardinality({ i \in 1..Len(steps) : steps[i] = step })
Raised(callee) == \E i \in 1..Len(raised) : raised[i] = callee
Said(msg) == \E i \in 1..Len(output) : output[i] = msg
\* The destination test file now, and when the run started.
Dest == fs[out_path].dest
Dest0 == fs0[out_path].dest
NamesOf(ds) == [i \in 1..Len(ds) |-> ds[i].name]
\* The texts of a text's lines of one kind, in order.
LinesOf(text, k) ==
    LET ls == SelectSeq(text, LAMBDA l : l.kind = k)
    IN  [i \in 1..Len(ls) |-> ls[i].text]

\* C1: when the existence check is reached with the destination present and
\* --overwrite not set, that step ends the run with exit code 0, with
\* generate_test_content never invoked and the destination's content what
\* it was before the run.
C1_ExistingDestinationIsKept ==
    [][ (pc = "check" /\ FileExists(fs, out_path) /\ ~overwrite)
        => /\ pc' = "done"
           /\ exit_code' = <<0>>
           /\ ~Ran("generate")'
           /\ ~Ran("open")'
           /\ fs'[out_path].dest = fs0[out_path].dest ]_vars

C1_Witness ==
    /\ pc = "done" /\ steps[Len(steps)] = "check"
    /\ ~overwrite /\ exit_code = <<0>>
    /\ Dest = <<OldContent>>

\* What C2 promises of a run whose filter matched nothing: it warned, kept
\* no descriptor, did not end at the filter, generates the header-only text,
\* and ends with exit code 0 once the write succeeded.
WarnedAndContinued ==
    /\ Said("Warning: Function not found in source.")
    /\ functions = <<>>
    /\ steps[Len(steps)] = "filter" => pc = "mkdir"
    /\ Ran("generate") => test_content = Header(SrcStem)
    /\ (pc = "done" /\ Ran("write") /\ ~Raised("write"))
         => (exit_code = <<0>> /\ Dest = <<Header(SrcStem)>>)

Unmatched ==
    \A i \in 1..Len(extracted) : extracted[i].name # function_name[1]

\* C2, as claimed: when a filter name is given and no extracted descriptor
\* has it, the run warns and goes on with the empty descriptor list through
\* directory preparation, the existence check, generation and writing, and
\* a successful write ends it with exit code 0.
C2_Original_AnyGivenName ==
    (function_name # None /\ Ran("filter") /\ Unmatched)
    => WarnedAndContinued

\* C2, amended: the same, for a filter name that is not the empty string.
C2_UnmatchedFilterWarnsAndContinues ==
    (function_name # None /\ function_name # Some("")
        /\ Ran("filter") /\ Unmatched)
    => WarnedAndContinued

C2_Witness ==
    /\ function_name = Some("gamma")
    /\ Len(extracted) = 2
    /\ Said("Warning: Function not found in source.")
    /\ pc = "done" /\ Ran("write") /\ exit_code = <<0>>
    /\ Dest = <<Header(SrcStem)>>

\* C3: when the analyzer raises, the run reports the error and ends with
\* exit code 1, and nothing later happens: no filtering, no directory
\* created, no generation, no file written.
C3_AnalyzerFailureAbortsTheRun ==
    Raised("analyzer")
    => /\ pc = "done"
       /\ exit_code = <<1>>
       /\ output[Len(output)] = "Error parsing file"
       /\ steps = <<"validate", "parse">>
       /\ fs = fs0
       /\ functions = <<>>
       /\ test_content = <<>>

C3_Witness == Raised("analyzer") /\ pc = "done" /\ exit_code = <<1>>

\* C4: the i-th generated test is named test_<name> when descriptor i is the
\* first of its name and test_<name>_<k> when it is the k-th (k >= 2), in
\* descriptor order; run, run, load gives test_run, test_run_2, test_load.
C4_TestNamesFollowOccurrence ==
    Ran("generate")
    => LET tn == LinesOf(test_content, "def")
       IN  /\ Len(tn) = Len(functions)
           /\ \A i \in 1..Len(functions) :
                LET n == functions[i].name
                    k == Cardinality({ j \in 1..i : functions[j].name = n })
                IN  tn[i] = IF k = 1 THEN "test_" \o n
                            ELSE "test_" \o n \o "_" \o ToString(k)
           /\ NamesOf(functions) = <<"run", "run", "load">>
                => tn = <<"test_run", "test_run_2", "test_load">>

C4_Witness ==
    /\ Ran("generate")
    /\ NamesOf(functions) = <<"run", "run", "load">>
    /\ LinesOf(test_content, "def") = <<"test_run", "test_run_2", "test_load">>

\* C5: extract_functions returns exactly one descriptor for each function
\* definition directly at module level or directly in a class body, none
\* for a function defined directly inside another function, in source order.
Emitted(t) ==
    { i \in 1..Len(t) :
        /\ t[i].kind = "FunctionDef"
        /\ (t[i].parent = 0 \/ t[t[i].parent].kind = "ClassDef") }

C5_ExtractsModuleAndClassLevel ==
    descriptors # <<>>
    => LET r == descriptors[1]
       IN  /\ Len(r) = Cardinality(Emitted(tree))
           /\ { r[k].lineno : k \in 1..Len(r) } = Emitted(tree)
           /\ \A k \in 1..Len(r) : r[k].name = tree[r[k].lineno].name
           /\ \A k \in 1..Len(r) :
                LET p == tree[r[k].lineno].parent
                IN  p = 0 \/ tree[p].kind # "FunctionDef"
           /\ \A k, l \in 1..Len(r) : k < l => r[k].lineno < r[l].lineno

C5_Witness ==
    /\ descriptors # <<>>
    /\ Len(descriptors[1]) = 2
    /\ \E i, j, c \in 1..Len(tree) :
        /\ tree[i].kind = "FunctionDef" /\ tree[i].parent = 0
        /\ tree[j].kind = "FunctionDef" /\ tree[j].parent = c
        /\ tree[c].kind = "ClassDef"
    /\ \E i \in 1..Len(tree) :
        /\ tree[i].kind = "FunctionDef" /\ tree[i].parent # 0
        /\ tree[tree[i].parent].kind = "FunctionDef"

\* C6: the text forge hands to the file is generate_test_content of the
\* descriptors retained by the filter: the header, then one test definition
\* per retained descriptor in descriptor order (the header alone for none);
\* a write that succeeds leaves exactly that text in the destination.
C6_WrittenTextIsGeneratedFromRetained ==
    /\ Ran("generate")
       => /\ test_content = generate_test_content(SrcStem, functions)
          /\ SubSeq(test_content, 1, 2) = Header(SrcStem)
          /\ Len(LinesOf(test_content, "def")) = Len(functions)
          /\ LinesOf(test_content, "call") = NamesOf(functions)
          /\ Len(LinesOf(test_content, "import")) = 2
          /\ functions = <<>> => test_content = Header(SrcStem)
    /\ (pc = "done" /\ Ran("write") /\ ~Raised("write"))
       => Dest = <<test_content>>

C6_Witness ==
    /\ pc = "done" /\ Ran("write") /\ ~Raised("write")
    /\ function_name = Some("run")
    /\ Len(extracted) = 3 /\ Len(functions) = 2
    /\ Dest = <<generate_test_content(SrcStem, functions)>>

\* C7: when the output directory cannot be created, or the test file cannot
\* be opened or written, the failure is reported and the run ends with a
\* non-zero exit code: success is not reported and no step is repeated.
C7_UnwritableDestinationFails ==
    (Raised("mkdir") \/ Raised("open") \/ Raised("write"))
    => /\ pc = "done"
       /\ exit_code # <<>> /\ exit_code # <<0>>
       /\ output[Len(output)] \in {"Error writing file", "Traceback: OSError"}
       /\ ~Said("Successfully forged: " \o test_file_path)
       /\ Times("mkdir") <= 1 /\ Times("open") <= 1 /\ Times("write") <= 1

C7_Witness ==
    /\ Raised("write") /\ pc = "done" /\ exit_code = <<1>>
    /\ output[Len(output)] = "Error writing file"

\* C8, as claimed: with --function given, the list passed to generation is
\* exactly the extracted descriptors of that name, in order; without it,
\* the extracted list unchanged.
C8_Original_AnyGivenName ==
    Ran("generate")
    => functions =
         IF function_name # None
         THEN SelectSeq(extracted, LAMBDA f : f.name = function_name[1])
         ELSE extracted

\* C8, amended: with --function given and not the empty string, the list
\* passed to generation is exactly the extracted descriptors of that name,
\* in order; with --function absent or empty, the extracted list unchanged.
C8_FilterKeepsExactlyTheNamed ==
    Ran("generate")
    => functions =
         IF function_name # None /\ function_name # Some("")
         THEN SelectSeq(extracted, LAMBDA f : f.name = function_name[1])
         ELSE extracted

C8_Witness ==
    /\ Ran("generate")
    /\ function_name = Some("run")
    /\ NamesOf(extracted) = <<"run", "load", "run">>
    /\ functions = <<extracted[1], extracted[3]>>

\* C9: the generated test names are pairwise distinct, also when a
\* callable's own name ends in a numeric suffix (run, run, run_2).
C9_TestNamesDistinct ==
    Ran("generate")
    => LET tn == LinesOf(test_content, "def")
       IN  \A i, j \in 1..Len(tn) : i # j => tn[i] # tn[j]

\* C10: a run that ends with a non-zero exit code leaves the destination's
\* content as it was before the run; the destination changes only in a run
\* that ends with exit code 0, and then holds the whole generated text.
C10_DestinationAllOrNothing ==
    pc = "done"
    => /\ exit_code # <<0>> => Dest = Dest0
       /\ Dest # Dest0 => (exit_code = <<0>> /\ Dest = <<test_content>>)

====
